---- MODULE Spec2Model ----
(***************************************************************************)
(* Model of the content plugin module (src/lib/ContentPluginModule.js,     *)
(* lines 1-418): the plugin catalog (the 'contentplugins' collection), the *)
(* framework's live plugin directory, the local plugin cache, the in-memory*)
(* schema table, module start-up (init, installPlugins,                    *)
(* processPluginSchemas) and the install / update / uninstall handlers.    *)
(* Every await of the source is a suspension point: a handler is a         *)
(* sequence of atomic steps, and the steps of concurrent handlers          *)
(* interleave.                                                             *)
(***************************************************************************)
EXTENDS Integers, Sequences, FiniteSets, TLC

\* ---------------------------------------------------------------- bounds
\* handler invocations after start-up
MaxRequests == 2

\* ------------------------------------------------------------- constants
\* `version === '*'` (installPlugin): the semver range matching any version
Star == 0
\* installHandler calls installPlugin(req.body.name): version is undefined
Undefined == -1

Names == {"a", "b"}
Versions == {1, 2}
\* targetAttribute values; "" is a bower.json that declares none
Attrs == {"", "x"}
\* this.framework.version, and the `framework` ranges plugins declare
frameworkVersion == "1.9.0"
Ranges == {"^1.0.0", "^2.0.0"}
\* concurrent handler invocations
Slots == {"r1", "r2"}
Procs == {"init"} \cup Slots
\* adapt.json dependencies of the framework: Object.entries order
managedDeps == << <<"a", 1>>, <<"b", Star>> >>
\* base schemas a plugin schema may patch ($patch.source.$ref)
Sources == {"course", "article"}

VARIABLES
  catalog,        \* the contentplugins collection: a set of documents
  nextId,         \* the next _id the database hands out
  disk,           \* live plugin directory: name -> version on disk, 0 absent
  cache,          \* pluginInstallDir: name -> cached version, 0 absent
  pluginSchemas,  \* this.pluginSchemas: name -> source -> list of schemas
  newPlugins,     \* this.newPlugins
  log,            \* this.log(level, ...) entries: <<level, plugin name>>
  dbPlugins,      \* installPlugins' snapshot of the catalog
  proc,           \* per process: the running operation and its locals
  requests        \* handler invocations so far

vars == <<catalog, nextId, disk, cache, pluginSchemas, newPlugins, log,
          dbPlugins, proc, requests>>

\* ------------------------------------------------------------ semver
\* semver.eq / semver.gt on the version numbers
semverEq(v, w) == v = w
semverGt(v, w) == v > w
\* semver.satisfies(version, range) for the caret ranges of Ranges
satisfies(version, range) ==
  CASE range = "^1.0.0" -> version \in {"1.0.0", "1.9.0"}
    [] range = "^2.0.0" -> version \in {"2.0.0"}
    [] OTHER -> FALSE

\* ------------------------------------------------------------ database
\* `keys` lists the other keys of the object, in Object.keys order
NoData == [name |-> "", version |-> 0, targetAttribute |-> "",
           framework |-> "", isLocalInstall |-> "undefined",
           type |-> "undefined", keys |-> <<>>]
\* the bower.json of an uploaded archive
PluginData == [name: Names, version: Versions, targetAttribute: Attrs,
               framework: Ranges, isLocalInstall: {"undefined"},
               type: {"undefined"}, keys: {<<"main", "component">>}]

\* a document of the collection: the plugin data plus the database's _id
Doc(data, id) == [_id |-> id, name |-> data.name, version |-> data.version,
                  targetAttribute |-> data.targetAttribute,
                  framework |-> data.framework,
                  isLocalInstall |-> data.isLocalInstall,
                  type |-> data.type, keys |-> data.keys]

\* `const [ doc ] = await this.find(...)`: the first document found
First(docs) == CHOOSE d \in docs : \A e \in docs : d._id <= e._id

\* this.find(query)
findByName(cat, name) == {d \in cat : d.name = name}
findById(cat, id) == {d \in cat : d._id = id}
\* this.find({ targetAttribute, name: { $ne: name } })
findConflicting(cat, targetAttribute, name) ==
  {d \in cat : d.targetAttribute = targetAttribute /\ d.name # name}

\* (mutant) the collection has no unique index on name
noUniqueIndex(cat, data) == TRUE

\* mongodb.setIndex(collectionName, 'name', { unique: true }): whether the
\* unique index admits a new document
uniqueIndexAdmits(cat, data) == findByName(cat, data.name) = {}

\* this.insert(data): the collection after the insert (unchanged when the
\* unique index rejects the document)
insert(cat, data, id) ==
  IF uniqueIndexAdmits(cat, data) THEN cat \cup {Doc(data, id)} ELSE cat

\* (mutant) this.replace leaves the replaced document alone in the collection
replaceDropsRest(cat, matching, data) ==
  IF matching = {} THEN cat ELSE {Doc(data, First(matching)._id)}

\* this.replace(query, data): the matching document is replaced, keeping its _id
replace(cat, matching, data) ==
  IF matching = {} THEN cat
  ELSE (cat \ {First(matching)}) \cup {Doc(data, First(matching)._id)}

\* this.delete({ _id })
delete(cat, id) == cat \ findById(cat, id)


\* ------------------------------------------------------ version policy
\* (mutant) checkCompatibility looks at the framework range and at the
\* attribute before it looks at the installed version
checkFrameworkFirst(installed, data) ==
  IF ~satisfies(frameworkVersion, data.framework)
    THEN "CONTENTPLUGIN_INCOMPAT_FW"
  ELSE IF data.targetAttribute = ""
    THEN "CONTENTPLUGIN_ATTR_MISSING"
  ELSE IF installed # {} /\ semverEq(First(installed).version, data.version)
    THEN "CONTENTPLUGIN_ALREADY_EXISTS"
  ELSE IF installed # {} /\ semverGt(First(installed).version, data.version)
    THEN "ReferenceError"
  ELSE "ok"

\* checkCompatibility, the checks on `const [ installedPluginData ]`, on the
\* framework range and on the presence of targetAttribute. `newVersion` is
\* not defined where CONTENTPLUGIN_NEWER_INSTALLED is built: a ReferenceError
\* is what the caller gets
checkInstalled(installed, data) ==
  IF installed # {} /\ semverEq(First(installed).version, data.version)
    THEN "CONTENTPLUGIN_ALREADY_EXISTS"
  ELSE IF installed # {} /\ semverGt(First(installed).version, data.version)
    THEN "ReferenceError"
  ELSE IF ~satisfies(frameworkVersion, data.framework)
    THEN "CONTENTPLUGIN_INCOMPAT_FW"
  ELSE IF data.targetAttribute = ""
    THEN "CONTENTPLUGIN_ATTR_MISSING"
  ELSE "ok"

\* checkCompatibility, the check on `const [ conflictingPlugin ]`
checkClash(conflicting) ==
  IF conflicting # {} THEN "CONTENTPLUGIN_ATTR_CLASH" ELSE "ok"

\* checkCompatibility when nothing else runs between its two finds
checkCompatibility(cat, data) ==
  LET first == checkInstalled(findByName(cat, data.name), data)
  IN IF first # "ok" THEN first
     ELSE checkClash(findConflicting(cat, data.targetAttribute, data.name))

\* ------------------------------------------------------------ plugin type
PluginTypes == {"component", "extension", "menu", "theme"}

\* (mutant) addType leaves the data as it is
addNoType(pluginData) == pluginData

\* addType(pluginData): without a `type`, the first key of the object that
\* names a plugin type becomes the type (undefined when find finds none)
addType(pluginData) ==
  IF pluginData.type # "undefined" THEN pluginData
  ELSE LET found == {i \in DOMAIN pluginData.keys : pluginData.keys[i] \in PluginTypes}
       IN [pluginData EXCEPT !.type =
             IF found = {} THEN "undefined"
             ELSE pluginData.keys[CHOOSE i \in found : \A j \in found : i <= j]]

\* ------------------------------------------------------- package runner
\* installPlugin: `${plugin}${version === '*' ? '' : `@${version}`}`
pluginStr(plugin, version) ==
  IF version = Star THEN <<plugin>> ELSE <<plugin, version>>

\* the versions AdaptCli.install may resolve a plugin string to
resolvedVersions(str) ==
  IF Len(str) = 2 /\ str[2] \in Versions THEN {str[2]} ELSE Versions

\* the remote registry: what the published bower.json of name@version
\* declares. b@1 claims the attribute of a, a@2 needs a newer framework,
\* b@2 declares no attribute. a@1 names its type by a key, a@2 by `type`,
\* b@1 by both, b@2 by neither
registry(name, version) ==
  [name |-> name, version |-> version,
   targetAttribute |-> IF name = "b" /\ version = 2 THEN "" ELSE "x",
   framework |-> IF name = "a" /\ version = 2 THEN "^2.0.0" ELSE "^1.0.0",
   isLocalInstall |-> "undefined",
   type |-> CASE name = "a" /\ version = 2 -> "component"
              [] name = "b" /\ version = 1 -> "extension"
              [] OTHER -> "undefined",
   keys |-> CASE name = "a" /\ version = 1 -> <<"main", "component">>
              [] name = "b" /\ version = 1 -> <<"menu", "main">>
              [] OTHER -> <<"main">>]

\* what AdaptCli.install / update may report for a plugin
cliResults(name, versions) == {registry(name, v) : v \in versions}

\* (mutant) runCliTask resolves when the runner fails
cliFailureSwallowed == "ok"

\* runCliTask: AdaptCli[task] rejects (the runner fails or is cut off), and
\* the rejection is what the caller's await throws
cliFailure == "RunnerFailure"

\* runCliTask(task, plugin): the call as the runner sees it
cliCall(task, plugin) == [task |-> task, plugin |-> plugin]

\* ------------------------------------------------------------ usage
\* getPluginUses: the courses whose config enables the plugin by name
getPluginUses(enabledPlugins, name) ==
  IF name \in enabledPlugins THEN <<[title |-> "course"]>> ELSE <<>>

\* ------------------------------------------------------------ schemas
\* the schema/*.schema.json files a plugin version ships: each patches a
\* source schema ($patch.source.$ref), or none ("")
schemaFiles(name, version) ==
  << [plugin |-> name, version |-> version, source |-> "course"],
     [plugin |-> name, version |-> version,
      source |-> IF name = "a" THEN "article" ELSE ""] >>

NoSchemas == [n \in Names |-> [s \in Sources |-> <<>>]]

\* (mutant) every schema of a plugin is filed under the course schema
pushUnderCourse(table, name, schemas) == [table EXCEPT ![name]["course"] = @ \o schemas]

\* processPluginSchemas, the forEach over one plugin's schemas
RECURSIVE pushSchemas(_, _, _)
pushSchemas(table, name, schemas) ==
  IF schemas = <<>> THEN table
  ELSE LET s == Head(schemas)
           next == IF s.source # ""
                   THEN [table EXCEPT ![name][s.source] = Append(@, s)]
                   ELSE table
       IN pushSchemas(next, name, Tail(schemas))

\* processPluginSchemas over the installed plugins: a plugin with no files
\* on disk has no schemas (glob finds none)
RECURSIVE processAll(_, _, _)
processAll(table, docs, dsk) ==
  IF docs = {} THEN table
  ELSE LET p == First(docs)
           next == IF dsk[p.name] = 0 THEN table
                   ELSE pushSchemas(table, p.name, schemaFiles(p.name, dsk[p.name]))
       IN processAll(next, docs \ {p}, dsk)

\* getPluginExtensionSchemas(pluginName, sourceSchema)
getPluginExtensionSchemas(table, pluginName, sourceSchema) ==
  IF pluginName \in DOMAIN table /\ sourceSchema \in DOMAIN table[pluginName]
  THEN table[pluginName][sourceSchema] ELSE <<>>


\* ------------------------------------------------------------ processes
Idle == [op |-> "idle", pc |-> "idle", name |-> "", version |-> 0, id |-> 0,
         data |-> NoData, existing |-> FALSE, calls |-> <<>>, outcome |-> "",
         queue |-> <<>>, inUse |-> FALSE, reported |-> NoData,
         reentry |-> FALSE]

Init ==
  /\ catalog = {}
  /\ nextId = 1
  /\ disk = [n \in Names |-> 0]
  /\ cache = [n \in Names |-> 0]
  /\ pluginSchemas = NoSchemas
  /\ newPlugins = <<>>
  /\ log = {}
  /\ dbPlugins = {}
  /\ proc = [p \in Procs |->
               IF p = "init" THEN [Idle EXCEPT !.op = "init", !.pc = "installPlugins"]
               ELSE Idle]
  /\ requests = 0

\* init has finished: the module serves requests
Ready == proc["init"].pc = "ready"

\* a handler that has its result responds before anything else runs: the
\* continuation of its last await runs in the same turn of the event loop
Responding == \E q \in Slots : proc[q].pc = "done"

\* process p resumes from the await it is suspended at
At(p, pc) == ~Responding /\ proc[p].pc = pc

\* ------------------------------------------------------------ start-up
\* installPlugins, the loop over managedDeps: the [name, version] pairs
\* marked for install
\* (mutant) installPlugins marks a dependency without a document under both
\* of its checks
RECURSIVE toInstallTwice(_, _, _)
toInstallTwice(deps, db, dsk) ==
  IF deps = <<>> THEN <<>>
  ELSE IF findByName(db, Head(deps)[1]) = {}
       THEN << <<Head(deps)[1], Head(deps)[2]>>, <<Head(deps)[1], Head(deps)[2]>> >>
              \o toInstallTwice(Tail(deps), db, dsk)
       ELSE toInstallTwice(Tail(deps), db, dsk)

\* (mutant) installPlugins marks the dependencies missing from the live
\* plugin directory only
RECURSIVE toInstallMissing(_, _, _)
toInstallMissing(deps, db, dsk) ==
  IF deps = <<>> THEN <<>>
  ELSE IF dsk[Head(deps)[1]] = 0
       THEN << <<Head(deps)[1], Head(deps)[2]>> >> \o toInstallMissing(Tail(deps), db, dsk)
       ELSE toInstallMissing(Tail(deps), db, dsk)

\* (mutant) installPlugins marks every dependency, installed or not
toInstallAll(deps, db, dsk) == deps

\* (mutant) installPlugins marks the first dependency only
toInstallFirst(deps, db, dsk) ==
  IF deps = <<>> THEN <<>> ELSE << <<Head(deps)[1], Head(deps)[2]>> >>

RECURSIVE toInstallOf(_, _, _)
toInstallOf(deps, db, dsk) ==
  IF deps = <<>> THEN <<>>
  ELSE LET name == Head(deps)[1]
           version == Head(deps)[2]
           p == findByName(db, name)
           rest == toInstallOf(Tail(deps), db, dsk)
       IN IF p = {} THEN << <<name, version>> >> \o rest
          ELSE IF dsk[name] = 0 THEN << <<name, First(p).version>> >> \o rest
          ELSE rest

\* installPlugins, the check of the locally installed plugins: the plugins
\* whose cached copy is copied back to the live plugin directory
localCopies(db, cat, cch) ==
  {p \in db : /\ p.isLocalInstall = "true"
              /\ cch[p.name] # 0
              /\ checkCompatibility(cat, p) = "ok"}

\* installPlugins, the check of the locally installed plugins: what it logs
localErrors(db, cat, cch) ==
  {<<"error", p.name>> : p \in
     {q \in db : /\ q.isLocalInstall = "true"
                 /\ \/ cch[q.name] = 0
                    \/ checkCompatibility(cat, q) \notin
                         {"ok", "CONTENTPLUGIN_ALREADY_EXISTS"}}}

\* installPlugins, the loop over managedDeps: a plugin whose bower.json in
\* the live plugin directory has another version than its document is logged
\* ("please reinstall") and not marked for install
mismatchWarnings(deps, db, dsk) ==
  {<<"warn", deps[i][1], "please reinstall">> : i \in
     {j \in DOMAIN deps :
        /\ findByName(db, deps[j][1]) # {}
        /\ dsk[deps[j][1]] # 0
        /\ dsk[deps[j][1]] # First(findByName(db, deps[j][1])).version}}

\* installPlugins up to its install loop
InstallPlugins ==
  /\ proc["init"].pc = "installPlugins"
  /\ dbPlugins' = catalog
  /\ disk' = [n \in Names |->
                IF \E p \in localCopies(catalog, catalog, cache) : p.name = n
                THEN cache[n] ELSE disk[n]]
  /\ log' = log \cup mismatchWarnings(managedDeps, catalog, disk)
                  \cup localErrors(catalog, catalog, cache)
  /\ proc' = [proc EXCEPT !["init"].pc = "loop",
                          !["init"].queue = toInstallOf(managedDeps, catalog, disk)]
  /\ UNCHANGED <<catalog, nextId, cache, pluginSchemas, newPlugins, requests>>

\* installPlugins, the catch of the install loop: what a failed install logs
loopLog(name, code) ==
  IF code # "CONTENTPLUGIN_ALREADY_EXISTS" THEN {<<"warn", name>>} ELSE {}

\* (mutant) a failed install ends the install loop
abortLoop(queue) == <<>>

\* installPlugins, the install loop after a failed install: what is left
afterFailure(queue) == Tail(queue)

\* (mutant) manualInstallPlugin's catch throws the error of its cleanup
removeErrorThrown(error, removeError) == IF removeError THEN "RemoveError" ELSE error

\* manualInstallPlugin's catch: `throw error`, whether or not the removal of
\* the unzipped files failed
rethrown(error, removeError) == error

\* the end of an operation of process p with the given outcome: a handler
\* has its response to send, the install loop goes on with the next plugin.
\* manualInstallPlugin's catch removes the unzipped files first when it was
\* given a zip, and logs the removal's own error
Complete(p, local, code) ==
  IF p = "init"
  THEN /\ proc' = [proc EXCEPT ![p] =
                     [local EXCEPT !.pc = "loop", !.outcome = code,
                                   !.queue = IF code = "ok" THEN Tail(@)
                                             ELSE afterFailure(@)]]
       /\ newPlugins' = IF code = "ok" THEN Append(newPlugins, local.name)
                        ELSE newPlugins
       /\ log' = IF code = "ok" THEN log ELSE log \cup loopLog(local.name, code)
  ELSE IF local.op = "manualInstallPlugin" /\ code # "ok"
  THEN \E removeError \in BOOLEAN :
         /\ proc' = [proc EXCEPT ![p] =
                       [local EXCEPT !.pc = "done",
                                     !.outcome = rethrown(code, removeError)]]
         /\ log' = IF removeError THEN log \cup {<<"debug", "removeError">>} ELSE log
         /\ UNCHANGED newPlugins
  ELSE /\ proc' = [proc EXCEPT ![p] = [local EXCEPT !.pc = "done", !.outcome = code]]
       /\ UNCHANGED <<newPlugins, log>>

\* installPlugin up to the end of runCliTask('install', pluginStr)
CliInstall(p, plugin, version) ==
  LET str == pluginStr(plugin, version)
      local == [proc[p] EXCEPT !.op = IF p = "init" THEN "init" ELSE "installPlugin",
                               !.name = plugin, !.version = version,
                               !.data = NoData, !.outcome = "",
                               !.reported = NoData,
                               !.calls = Append(@, cliCall("install", str))]
  IN \/ /\ Complete(p, local, cliFailure)
        /\ UNCHANGED <<catalog, nextId, disk, cache, pluginSchemas, dbPlugins>>
     \/ \E d \in cliResults(plugin, resolvedVersions(str)) :
          /\ disk' = [disk EXCEPT ![plugin] = d.version]
          /\ proc' = [proc EXCEPT ![p] =
                        [local EXCEPT !.pc = "insertToDatabase",
                                      !.reported = d,
                                      !.data = [addType(d) EXCEPT
                                                  !.isLocalInstall = "false"]]]
          /\ UNCHANGED <<catalog, nextId, cache, pluginSchemas, newPlugins,
                         log, dbPlugins>>

\* installPlugins, one turn of the install loop
LoopInstall ==
  /\ proc["init"].pc = "loop"
  /\ proc["init"].queue # <<>>
  /\ CliInstall("init", Head(proc["init"].queue)[1], Head(proc["init"].queue)[2])
  /\ UNCHANGED requests

\* insertToDatabase: `const [ existingData ] = await this.find({ name })`
InsertFind(p) ==
  /\ At(p, "insertToDatabase")
  /\ proc' = [proc EXCEPT ![p].pc = "write",
                          ![p].existing = findByName(catalog, proc[p].data.name) # {}]
  /\ UNCHANGED <<catalog, nextId, disk, cache, pluginSchemas, newPlugins, log,
                 dbPlugins, requests>>

\* (mutant) insertToDatabase inserts whatever its find returned
insertAlways(cat, existing, data, id) ==
  [catalog |-> insert(cat, data, id),
   code |-> IF uniqueIndexAdmits(cat, data) THEN "ok" ELSE "DuplicateKey"]

\* insertToDatabase after its find: the collection after the replace or the
\* insert, and how the call ends
insertToDatabase(cat, existing, data, id) ==
  IF existing
  THEN [catalog |-> replace(cat, findByName(cat, data.name), data),
        code |-> IF findByName(cat, data.name) = {} THEN "NOT_FOUND" ELSE "ok"]
  ELSE [catalog |-> insert(cat, data, id),
        code |-> IF uniqueIndexAdmits(cat, data) THEN "ok" ELSE "DuplicateKey"]

InsertWrite(p) ==
  /\ At(p, "write")
  /\ LET written == insertToDatabase(catalog, proc[p].existing, proc[p].data, nextId)
     IN /\ catalog' = written.catalog
        /\ Complete(p, proc[p], written.code)
  /\ nextId' = IF proc[p].existing THEN nextId ELSE nextId + 1
  /\ UNCHANGED <<disk, cache, pluginSchemas, dbPlugins, requests>>

\* processPluginSchemas, once the install loop has ended
ProcessPluginSchemas ==
  /\ proc["init"].pc = "loop"
  /\ proc["init"].queue = <<>>
  /\ pluginSchemas' = processAll(pluginSchemas, catalog, disk)
  /\ proc' = [proc EXCEPT !["init"].pc = "ready"]
  /\ UNCHANGED <<catalog, nextId, disk, cache, newPlugins, log, dbPlugins, requests>>


\* ------------------------------------------------------------ handlers
\* a request is taken by the first free slot; under sequential use (when
\* `serial`) no two operations on the same plugin name are in flight at once
Admits(p, name, serial) ==
  /\ Ready
  /\ ~Responding
  /\ proc[p].op = "idle"
  /\ requests < MaxRequests
  /\ p = "r2" => proc["r1"].op # "idle"
  /\ serial => \A q \in Slots \ {p} : proc[q].op = "idle" \/ proc[q].name # name

\* the _id values a request may carry: the ones the database has handed out,
\* and 0 for one it never did
Ids == 0..(nextId - 1)

\* the name of the plugin with this _id, "" when there is none
nameOf(cat, id) == IF findById(cat, id) = {} THEN "" ELSE First(findById(cat, id)).name

\* installPlugin(plugin, version) on behalf of a request; installHandler
\* passes no version
InstallPlugin(p, serial) ==
  \E plugin \in Names, version \in Versions \cup {Undefined} :
    /\ Admits(p, plugin, serial)
    /\ CliInstall(p, plugin, version)
    /\ requests' = requests + 1

\* manualInstallPlugin up to the end of checkCompatibility's first find and
\* the checks made on it; the unzip, the readdir or the read of bower.json
\* may fail before them, and no plugin data is at hand then
ManualInstallPlugin(p, serial) ==
  \E d \in PluginData, read \in BOOLEAN :
    LET data == [addType(d) EXCEPT !.isLocalInstall = "true"]
        local == IF read
                 THEN [proc[p] EXCEPT !.op = "manualInstallPlugin", !.name = d.name,
                                      !.version = d.version, !.data = data]
                 ELSE [proc[p] EXCEPT !.op = "manualInstallPlugin"]
        code == IF read THEN checkInstalled(findByName(catalog, d.name), data)
                ELSE "FsError"
    IN /\ Admits(p, d.name, serial)
       /\ IF code = "ok"
          THEN /\ proc' = [proc EXCEPT ![p] = [local EXCEPT !.pc = "checkClash"]]
               /\ UNCHANGED <<newPlugins, log>>
          ELSE Complete(p, local, code)
       /\ requests' = requests + 1
       /\ UNCHANGED <<catalog, nextId, disk, cache, pluginSchemas, dbPlugins>>

\* checkCompatibility's second find and the clash check
CheckClash(p) ==
  /\ At(p, "checkClash")
  /\ LET code == checkClash(findConflicting(catalog, proc[p].data.targetAttribute,
                                            proc[p].data.name))
     IN IF code = "ok"
        THEN /\ proc' = [proc EXCEPT ![p].pc = "move"]
             /\ UNCHANGED <<newPlugins, log>>
        ELSE Complete(p, proc[p], code)
  /\ UNCHANGED <<catalog, nextId, disk, cache, pluginSchemas, dbPlugins, requests>>

\* manualInstallPlugin: fs.move(pluginSrc, pluginDest, { overwrite: true })
Move(p) ==
  /\ At(p, "move")
  /\ \/ /\ disk' = [disk EXCEPT ![proc[p].name] = proc[p].data.version]
        /\ proc' = [proc EXCEPT ![p].pc = "copy"]
        /\ UNCHANGED <<newPlugins, log>>
     \/ /\ Complete(p, proc[p], "FsError")
        /\ UNCHANGED disk
  /\ UNCHANGED <<catalog, nextId, cache, pluginSchemas, dbPlugins, requests>>

\* (mutant) manualInstallPlugin saves no copy in pluginInstallDir
CopySkipped(p) ==
  /\ At(p, "copy")
  /\ proc' = [proc EXCEPT ![p].pc = "insertToDatabase"]
  /\ UNCHANGED <<catalog, nextId, disk, cache, pluginSchemas, newPlugins, log,
                 dbPlugins, requests>>

\* manualInstallPlugin: fs.copy(pluginDest, `${pluginInstallDir}/${name}`)
Copy(p) ==
  /\ At(p, "copy")
  /\ \/ /\ disk[proc[p].name] # 0
        /\ cache' = [cache EXCEPT ![proc[p].name] = disk[proc[p].name]]
        /\ proc' = [proc EXCEPT ![p].pc = "insertToDatabase"]
        /\ UNCHANGED <<newPlugins, log>>
     \/ /\ Complete(p, proc[p], "FsError")
        /\ UNCHANGED cache
  /\ UNCHANGED <<catalog, nextId, disk, pluginSchemas, dbPlugins, requests>>

\* (mutant) updatePlugin goes on to the runner without a plugin found
UpdatePluginUnchecked(p, serial) ==
  \E id \in Ids :
    LET name == nameOf(catalog, id)
    IN /\ Admits(p, name, serial)
       /\ proc' = [proc EXCEPT ![p] =
                     [@ EXCEPT !.op = "updatePlugin", !.id = id, !.name = name,
                               !.pc = "cliUpdate"]]
       /\ requests' = requests + 1
       /\ UNCHANGED <<catalog, nextId, disk, cache, pluginSchemas, newPlugins, log,
                      dbPlugins>>

\* updatePlugin up to the end of getPluginById: installedPluginData.name
\* throws when there is no such plugin
UpdatePlugin(p, serial) ==
  \E id \in Ids :
    LET name == nameOf(catalog, id)
        local == [proc[p] EXCEPT !.op = "updatePlugin", !.id = id, !.name = name]
    IN /\ Admits(p, name, serial)
       /\ IF name = ""
          THEN Complete(p, local, "TypeError")
          ELSE /\ proc' = [proc EXCEPT ![p] = [local EXCEPT !.pc = "cliUpdate"]]
               /\ UNCHANGED <<newPlugins, log>>
       /\ requests' = requests + 1
       /\ UNCHANGED <<catalog, nextId, disk, cache, pluginSchemas, dbPlugins>>

\* updatePlugin: runCliTask('update', installedPluginData.name)
CliUpdate(p) ==
  /\ At(p, "cliUpdate")
  /\ LET local == [proc[p] EXCEPT
                     !.calls = Append(@, cliCall("update", <<proc[p].name>>))]
     IN \/ /\ Complete(p, local, cliFailure)
           /\ UNCHANGED disk
        \/ \E d \in cliResults(proc[p].name, Versions) :
             /\ disk' = [disk EXCEPT ![proc[p].name] = d.version]
             /\ proc' = [proc EXCEPT ![p] = [local EXCEPT !.pc = "replace",
                                                          !.reported = d,
                                                          !.data = addType(d)]]
             /\ UNCHANGED <<newPlugins, log>>
  /\ UNCHANGED <<catalog, nextId, cache, pluginSchemas, dbPlugins, requests>>

\* (mutant) updatePlugin writes the runner's report with the version the
\* document had
updateKeepsVersion(cat, id, data) ==
  IF findById(cat, id) = {} THEN cat
  ELSE replace(cat, findById(cat, id),
               [data EXCEPT !.version = First(findById(cat, id)).version])

\* (mutant) updatePlugin does not write what the runner reported
updateSkipsReplace(cat, id, data) == cat

\* updatePlugin: this.replace({ _id }, this.addType(pluginData))
updateReplace(cat, id, data) == replace(cat, findById(cat, id), data)

UpdateReplace(p) ==
  /\ At(p, "replace")
  /\ catalog' = updateReplace(catalog, proc[p].id, proc[p].data)
  /\ Complete(p, proc[p], IF findById(catalog, proc[p].id) = {} THEN "NOT_FOUND" ELSE "ok")
  /\ UNCHANGED <<nextId, disk, cache, pluginSchemas, dbPlugins, requests>>

\* uninstallPlugin up to the end of getPluginById. What getPluginUses would
\* report for the plugin is kept beside the handler's locals: uninstallPlugin
\* itself does not ask
UninstallPlugin(p, serial) ==
  \E id \in Ids, enabledPlugins \in SUBSET Names :
    LET name == nameOf(catalog, id)
    IN /\ Admits(p, name, serial)
       /\ proc' = [proc EXCEPT ![p] =
                     [@ EXCEPT !.op = "uninstallPlugin", !.pc = "delete", !.id = id,
                               !.name = name,
                               !.inUse = getPluginUses(enabledPlugins, name) # <<>>]]
       /\ requests' = requests + 1
       /\ UNCHANGED <<catalog, nextId, disk, cache, pluginSchemas, newPlugins, log,
                      dbPlugins>>

\* (mutant) uninstallPlugin leaves the document in the collection
uninstallKeepsDoc(cat, id) == cat

\* uninstallPlugin: await this.delete({ _id })
uninstallDelete(cat, id) == delete(cat, id)

\* uninstallPlugin: the delete, which the database may reject, the rejection
\* ending uninstallPlugin at this await; pluginData.name throws when
\* getPluginById found nothing
UninstallDelete(p) ==
  /\ At(p, "delete")
  /\ \/ /\ catalog' = uninstallDelete(catalog, proc[p].id)
        /\ IF proc[p].name = ""
           THEN Complete(p, proc[p], "TypeError")
           ELSE /\ proc' = [proc EXCEPT ![p].pc = "cliUninstall"]
                /\ UNCHANGED <<newPlugins, log>>
     \/ /\ UNCHANGED catalog
        /\ Complete(p, proc[p], "DatabaseError")
  /\ UNCHANGED <<nextId, disk, cache, pluginSchemas, dbPlugins, requests>>

\* uninstallPlugin: runCliTask('uninstall', pluginData.name)
CliUninstall(p) ==
  /\ At(p, "cliUninstall")
  /\ LET local == [proc[p] EXCEPT
                     !.calls = Append(@, cliCall("uninstall", <<proc[p].name>>))]
     IN \/ /\ Complete(p, local, cliFailure)
           /\ UNCHANGED disk
        \/ /\ disk' = [disk EXCEPT ![proc[p].name] = 0]
           /\ Complete(p, local, "ok")
  /\ UNCHANGED <<catalog, nextId, cache, pluginSchemas, dbPlugins, requests>>

\* the handler sends its response (or calls next(error)) and ends
Respond(p) ==
  /\ proc[p].pc = "done"
  /\ proc' = [proc EXCEPT ![p] = Idle]
  /\ UNCHANGED <<catalog, nextId, disk, cache, pluginSchemas, newPlugins, log,
                 dbPlugins, requests>>

\* ------------------------------------------------------- specifications
Steps ==
  \/ InstallPlugins
  \/ LoopInstall
  \/ ProcessPluginSchemas
  \/ \E p \in Procs : InsertFind(p) \/ InsertWrite(p)
  \/ \E p \in Slots :
       \/ CheckClash(p) \/ Move(p) \/ Copy(p)
       \/ CliUpdate(p) \/ UpdateReplace(p)
       \/ UninstallDelete(p) \/ CliUninstall(p)
       \/ Respond(p)

\* handlers start whenever a request comes in
Next ==
  \/ Steps
  \/ \E p \in Slots :
       \/ InstallPlugin(p, FALSE) \/ ManualInstallPlugin(p, FALSE)
       \/ UpdatePlugin(p, FALSE) \/ UninstallPlugin(p, FALSE)

Spec == Init /\ [][Next]_vars

\* what a start of the process may find in the database and on disk: per
\* plugin no document or the document of an earlier install by name or from
\* an archive, and any content of the live plugin directory and of the cache
InstalledData(n) ==
  {[addType(registry(n, v)) EXCEPT !.isLocalInstall = l] :
     v \in Versions, l \in {"false", "true"}}
DocsOf(n, id) == {{}} \cup {{Doc(d, id)} : d \in InstalledData(n)}
Catalogs == {x \cup y : x \in DocsOf("a", 1), y \in DocsOf("b", 2)}

InitRestart ==
  /\ catalog \in Catalogs
  /\ nextId = 3
  /\ disk \in [Names -> {0} \cup Versions]
  /\ cache \in [Names -> {0} \cup Versions]
  /\ pluginSchemas = NoSchemas
  /\ newPlugins = <<>>
  /\ log = {}
  /\ dbPlugins = {}
  /\ proc = [p \in Procs |->
               IF p = "init" THEN [Idle EXCEPT !.op = "init", !.pc = "installPlugins"]
               ELSE Idle]
  /\ requests = 0

\* the process starts again with nothing changed in between: setValues and
\* init run on what the database and the disk hold
Restart ==
  /\ Ready
  /\ \A p \in Slots : proc[p].op = "idle"
  /\ proc' = [proc EXCEPT !["init"] =
                [Idle EXCEPT !.op = "init", !.pc = "installPlugins",
                             !.reentry = TRUE]]
  /\ pluginSchemas' = NoSchemas
  /\ newPlugins' = <<>>
  /\ dbPlugins' = {}
  /\ UNCHANGED <<catalog, nextId, disk, cache, log, requests>>

\* (mutant) the error of a failed schema read leaves init uncaught
SchemaReadThrows ==
  /\ proc["init"].pc = "loop"
  /\ proc["init"].queue = <<>>
  /\ \E p \in catalog : disk[p.name] # 0
  /\ proc' = [proc EXCEPT !["init"].pc = "failed"]
  /\ UNCHANGED <<catalog, nextId, disk, cache, pluginSchemas, newPlugins, log,
                 dbPlugins, requests>>

\* processPluginSchemas rejects: the glob or a readJson of one installed
\* plugin fails, the schemas of some of the others have been filed by then,
\* and init's catch logs the error
SchemaReadFails ==
  /\ proc["init"].pc = "loop"
  /\ proc["init"].queue = <<>>
  /\ \E p \in catalog :
       /\ disk[p.name] # 0
       /\ \E done \in SUBSET (catalog \ {p}) :
            pluginSchemas' = processAll(pluginSchemas, done, disk)
  /\ log' = log \cup {<<"error", "init">>}
  /\ proc' = [proc EXCEPT !["init"].pc = "ready"]
  /\ UNCHANGED <<catalog, nextId, disk, cache, newPlugins, dbPlugins, requests>>

\* start-up passes only, from whatever an earlier run left behind
NextRestart ==
  \/ InstallPlugins
  \/ LoopInstall
  \/ InsertFind("init")
  \/ InsertWrite("init")
  \/ ProcessPluginSchemas
  \/ SchemaReadFails
  \/ Restart

SpecRestart == InitRestart /\ [][NextRestart]_vars

\* the steps of a start-up pass
Pass ==
  \/ InstallPlugins
  \/ LoopInstall
  \/ InsertFind("init")
  \/ InsertWrite("init")
  \/ ProcessPluginSchemas
  \/ SchemaReadFails

\* every external call of a pass returns, with a result or an error: a pass
\* that can take a step takes one
SpecRestartFair == SpecRestart /\ WF_vars(Pass)

\* sequential use: the callers issue the operations on one plugin name one
\* at a time, a new one only once the previous one has responded; operations
\* on different names still interleave
NextSerial ==
  \/ Steps
  \/ \E p \in Slots :
       \/ InstallPlugin(p, TRUE) \/ ManualInstallPlugin(p, TRUE)
       \/ UpdatePlugin(p, TRUE) \/ UninstallPlugin(p, TRUE)

SpecSerial == Init /\ [][NextSerial]_vars


\* ---------------------------------------------------------------- claims
Installs == {"installPlugin", "manualInstallPlugin"}

\* process p ends its operation in this step
Completes(p) == proc[p].pc # "done" /\ proc'[p].pc = "done"

\* C1: in every reachable state the catalog holds at most one document per
\* plugin name
C1_NameUnique == \A d, e \in catalog : d.name = e.name => d = e

\* C1 witness: two installs of one name ran side by side, and the unique index
\* turned the second insert down
C1_Witness ==
  \E p \in Slots :
    /\ proc[p].pc = "done"
    /\ proc[p].outcome = "DuplicateKey"
    /\ Cardinality(findByName(catalog, proc[p].name)) = 1

\* C2 (as claimed): an install, by name or from an archive, of a plugin whose
\* document in the catalog has a version >= the candidate's ends with
\* CONTENTPLUGIN_ALREADY_EXISTS and does not invoke the package runner. An
\* install starts with its first await: the runner call of installPlugin, the
\* first find of checkCompatibility
C2_NoInstallOverInstalled ==
  [][\A p \in Slots :
       ( /\ proc[p].op = "idle"
         /\ proc'[p].op \in Installs
         /\ proc'[p].version \in Versions
         /\ \E d \in findByName(catalog, proc'[p].name) :
              d.version >= proc'[p].version )
       => ( /\ proc'[p].pc = "done"
            /\ proc'[p].outcome = "CONTENTPLUGIN_ALREADY_EXISTS"
            /\ proc'[p].calls = <<>> )]_vars

\* C3 (as claimed): at most one document holds a given targetAttribute value
C3_AttributeUnique ==
  \A d, e \in catalog :
    (d.targetAttribute # "" /\ d.targetAttribute = e.targetAttribute) => d = e


\* the checks checkCompatibility makes before the clash check let the
\* candidate through
PassesInstalled(cat, data) ==
  data # NoData /\ checkInstalled(findByName(cat, data.name), data) = "ok"

\* C4 (as claimed): an install of a plugin whose targetAttribute is held by a
\* document of another name ends with CONTENTPLUGIN_ATTR_CLASH and leaves the
\* catalog as it was
C4_ClashRejected ==
  [][\A p \in Slots :
       ( /\ Completes(p)
         /\ proc'[p].op \in Installs
         /\ PassesInstalled(catalog, proc'[p].data)
         /\ findConflicting(catalog, proc'[p].data.targetAttribute,
                            proc'[p].name) # {} )
       => ( /\ proc'[p].outcome = "CONTENTPLUGIN_ATTR_CLASH"
            /\ catalog' = catalog )]_vars

\* C5 (as claimed): an uninstall of a plugin that getPluginUses reports as
\* used by a course ends with an in-use error, with the document still in the
\* catalog and no runner call made
C5_InUseBlocksUninstall ==
  \A p \in Slots :
    ( /\ proc[p].op = "uninstallPlugin"
      /\ proc[p].pc = "done"
      /\ proc[p].name # ""
      /\ proc[p].inUse )
    => ( /\ proc[p].outcome = "CONTENTPLUGIN_IN_USE"
         /\ findById(catalog, proc[p].id) # {}
         /\ proc[p].calls = <<>> )

\* C6 (as claimed): an install of a plugin whose framework range the running
\* framework does not satisfy, and which no document of equal or newer version
\* stands against, ends with CONTENTPLUGIN_INCOMPAT_FW and leaves the catalog as
\* it was
C6_IncompatibleRejected ==
  [][\A p \in Slots :
       ( /\ Completes(p)
         /\ proc'[p].op \in Installs
         /\ proc'[p].data # NoData
         /\ \A d \in findByName(catalog, proc'[p].name) :
              d.version < proc'[p].data.version
         /\ ~satisfies(frameworkVersion, proc'[p].data.framework) )
       => ( /\ proc'[p].outcome = "CONTENTPLUGIN_INCOMPAT_FW"
            /\ catalog' = catalog )]_vars

\* C9 (as claimed): after a successful uninstall of a plugin
\* getPluginExtensionSchemas returns no schema of it, whatever the source
C9_SchemasGoneAfterUninstall ==
  \A p \in Slots :
    ( /\ proc[p].op = "uninstallPlugin"
      /\ proc[p].pc = "done"
      /\ proc[p].outcome = "ok" )
    => \A source \in Sources :
         getPluginExtensionSchemas(pluginSchemas, proc[p].name, source) = <<>>


\* the candidate of an install repeats the inputs of the install that wrote
\* document d
Repeats(data, d) == data # NoData /\ Doc(data, d._id) = d

\* C7: with one operation per plugin name at a time, an install that repeats
\* the inputs of the install that wrote the plugin's document (the runner
\* answering as before) leaves exactly one document for the name: it replaces
\* the document in place, _id kept, or ends with CONTENTPLUGIN_ALREADY_EXISTS
C7_RepeatedInstall ==
  [][\A p \in Slots :
       ( /\ Completes(p)
         /\ proc'[p].op \in Installs
         /\ \E d \in findByName(catalog, proc'[p].name) :
              Repeats(proc'[p].data, d) )
       => ( /\ Cardinality(findByName(catalog', proc'[p].name)) = 1
            /\ catalog' = catalog
            /\ \/ proc'[p].op = "installPlugin" /\ proc'[p].outcome = "ok"
               \/ /\ proc'[p].op = "manualInstallPlugin"
                  /\ proc'[p].outcome = "CONTENTPLUGIN_ALREADY_EXISTS" )]_vars

\* C7 witness: init installed a@1, and the first request, installPlugin of
\* a@1 again, has replaced that document in place
C7_Witness ==
  /\ requests = 1
  /\ newPlugins = <<"a">>
  /\ proc["init"].calls[1] = cliCall("install", <<"a", 1>>)
  /\ proc["r1"].op = "installPlugin"
  /\ proc["r1"].pc = "done"
  /\ proc["r1"].calls = <<cliCall("install", <<"a", 1>>)>>
  /\ proc["r1"].existing
  /\ proc["r1"].outcome = "ok"
  /\ catalog = {Doc(proc["r1"].data, 1)}

\* C8: with one operation per plugin name at a time, when an uninstall of a
\* plugin no course uses ends in success, the catalog holds no document of
\* that name and the handler has invoked the runner once, with
\* uninstall of that name
C8_Uninstalled ==
  [][\A p \in Slots :
       ( /\ Completes(p)
         /\ proc'[p].op = "uninstallPlugin"
         /\ ~proc'[p].inUse
         /\ proc'[p].outcome = "ok" )
       => ( /\ findByName(catalog', proc'[p].name) = {}
            /\ proc'[p].calls = <<cliCall("uninstall", <<proc'[p].name>>)>> )]_vars

\* C8 witness: an uninstall of a plugin that was in the catalog and that no
\* course uses has ended in success
C8_Witness ==
  \E p \in Slots :
    /\ proc[p].op = "uninstallPlugin"
    /\ proc[p].pc = "done"
    /\ proc[p].outcome = "ok"
    /\ ~proc[p].inUse
    /\ proc[p].name \in Names
    /\ findByName(catalog, proc[p].name) = {}
    /\ disk[proc[p].name] = 0

\* the install loop of installPlugins has ended
LoopEnded == proc["init"].pc = "loop" /\ proc["init"].queue = <<>>

\* the plugins installPlugins invoked the runner for
Attempted == {proc["init"].calls[i].plugin[1] : i \in DOMAIN proc["init"].calls}

\* the plugins whose install succeeded
Succeeded == {newPlugins[i] : i \in DOMAIN newPlugins}

\* C10: when the install loop of installPlugins ends, an install has been
\* attempted for every dependency the catalog lacked, whatever failed before
\* it; the documents the catalog gained are those of the plugins whose install
\* succeeded; and every failed install is logged as a warning
C10_BulkInstallIsolatesFailures ==
  LoopEnded =>
    /\ \A i \in DOMAIN managedDeps :
         findByName(dbPlugins, managedDeps[i][1]) = {}
           => managedDeps[i][1] \in Attempted
    /\ {d.name : d \in catalog \ dbPlugins} = Succeeded
    /\ \A n \in Attempted \ Succeeded : <<"warn", n>> \in log

\* C10 witness: the install of a failed, the install of b succeeded, and the
\* loop has ended with a document for b only
C10_Witness ==
  /\ LoopEnded
  /\ proc["init"].calls[1].plugin[1] = "a"
  /\ newPlugins = <<"b">>
  /\ log = {<<"warn", "a">>}
  /\ {d.name : d \in catalog} = {"b"}

\* the plugin type a report of the runner names: its `type`, or else the first
\* of its keys that is a plugin type
ReportedType(d) ==
  IF d.type # "undefined" THEN d.type
  ELSE IF \E i \in DOMAIN d.keys : d.keys[i] \in PluginTypes
       THEN d.keys[CHOOSE i \in DOMAIN d.keys :
                     /\ d.keys[i] \in PluginTypes
                     /\ \A j \in 1..(i - 1) : d.keys[j] \notin PluginTypes]
       ELSE "undefined"

\* C11: when an install by name ends in success, the catalog holds one
\* document of that name, and its version, type and targetAttribute are the
\* ones the runner's install reported to this call
C11_InstallRoundTrip ==
  [][\A p \in Slots :
       ( /\ Completes(p)
         /\ proc'[p].op = "installPlugin"
         /\ proc'[p].outcome = "ok" )
       => \E d \in catalog' :
            /\ findByName(catalog', proc'[p].name) = {d}
            /\ d.version = proc'[p].reported.version
            /\ d.type = ReportedType(proc'[p].reported)
            /\ d.targetAttribute = proc'[p].reported.targetAttribute]_vars

\* C11 witness: an install by name has ended in success for a report that
\* names the plugin type by a key only, and the document carries that type
C11_Witness ==
  \E p \in Slots :
    /\ proc[p].op = "installPlugin"
    /\ proc[p].pc = "done"
    /\ proc[p].outcome = "ok"
    /\ proc[p].reported.type = "undefined"
    /\ \E d \in findByName(catalog, proc[p].name) :
         d.type = "component" /\ d.version = proc[p].reported.version

\* what each check of an install stands against, stated on the catalog and
\* the candidate; of the ranges plugins declare the running framework, 1.9.0,
\* is within ^1.0.0 only
FailsVersion(cat, data) == \E d \in cat : d.name = data.name /\ d.version >= data.version
FailsFramework(data) == data.framework # "^1.0.0"
FailsAttribute(data) == data.targetAttribute = ""
FailsClash(cat, data) ==
  \E d \in cat : d.name # data.name /\ d.targetAttribute = data.targetAttribute

\* the errors the check of the installed version ends with: the error for an
\* equal version, and the ReferenceError raised where the error for a newer
\* installed version is built
VersionErrors == {"CONTENTPLUGIN_ALREADY_EXISTS", "ReferenceError"}

C13_ChecksBeforeMutation ==
  [][\A p \in Slots :
       ( /\ proc'[p].op \in Installs
         /\ proc'[p].pc # proc[p].pc
         /\ proc'[p].data # NoData
         /\ \/ proc'[p].calls # proc[p].calls
            \/ disk' # disk
            \/ catalog' # catalog )
       => checkCompatibility(catalog, proc'[p].data) = "ok"]_vars

\* C14 (as claimed): every document of the catalog has a non-empty
\* targetAttribute, an install of a plugin that declares none having been
\* turned down
C14_AttributePresent == \A d \in catalog : d.targetAttribute # ""

\* C15 (as claimed): the check of the installed version that an archive
\* install starts with ends with CONTENTPLUGIN_ALREADY_EXISTS exactly when the
\* catalog holds a document of the name whose version is the candidate's or a
\* newer one (no caller can pass a force flag)
C15_Installable ==
  [][\A p \in Slots :
       (proc[p].op = "idle" /\ proc'[p].op = "manualInstallPlugin")
       => ( FailsVersion(catalog, proc'[p].data)
            <=> proc'[p].outcome = "CONTENTPLUGIN_ALREADY_EXISTS" )]_vars

\* C16 (as claimed): an uninstall of a plugin no course uses that has ended,
\* however its delete and its runner call went, has invoked the runner's
\* uninstall for the plugin
C16_BothAttempted ==
  \A p \in Slots :
    ( /\ proc[p].op = "uninstallPlugin"
      /\ proc[p].pc = "done"
      /\ proc[p].name # ""
      /\ ~proc[p].inUse )
    => proc[p].calls = <<cliCall("uninstall", <<proc[p].name>>)>>

\* the catalog and the live plugin directory agree on plugin n: a document
\* exists exactly when the plugin is on disk, with the version on disk
AgreeOn(cat, dsk, n) ==
  IF findByName(cat, n) = {} THEN dsk[n] = 0
  ELSE \A d \in findByName(cat, n) : d.version = dsk[n]

\* process p takes this step, working on plugin n
Operates(p, n) == proc'[p] # proc[p] /\ proc'[p].name = n

\* C17: under sequential use, every install, update or uninstall that ends in
\* success, at start-up or for a request, leaves the catalog and the live
\* plugin directory in agreement on its plugin, and no step changes the
\* document or the directory of a plugin other than the one its operation
\* works on; so with no operation in flight, after operations that all
\* succeeded, the two agree on every plugin
C17_CatalogAgreesWithDisk ==
  [][ /\ \A p \in Slots :
           (Completes(p) /\ proc'[p].outcome = "ok")
           => AgreeOn(catalog', disk', proc'[p].name)
      /\ ( /\ proc["init"].pc = "write"
           /\ proc'["init"].pc = "loop"
           /\ proc'["init"].outcome = "ok" )
         => AgreeOn(catalog', disk', proc'["init"].name)
      /\ \A n \in Names :
           (\A p \in Procs : ~Operates(p, n))
           => /\ findByName(catalog', n) = findByName(catalog, n)
              /\ disk'[n] = disk[n] ]_vars

\* C17 witness: start-up installed both plugins without a warning, then an
\* update and an uninstall ended in success, and with nothing in flight the
\* catalog and the live plugin directory agree on every plugin
C17_Witness ==
  /\ Ready
  /\ log = {}
  /\ Len(newPlugins) = 2
  /\ requests = 2
  /\ proc["r1"].op = "uninstallPlugin"
  /\ proc["r1"].pc = "done"
  /\ proc["r1"].outcome = "ok"
  /\ proc["r2"].op = "idle"
  /\ \E n \in Names : findByName(catalog, n) # {} /\ disk[n] = 2
  /\ \E n \in Names : findByName(catalog, n) = {}
  /\ \A n \in Names : AgreeOn(catalog, disk, n)

\* C18: when the runner fails during an install by name, for a request or at
\* start-up, the install ends in an error, never in success, and the catalog
\* is left as it was; at start-up the plugin is not listed as newly installed
C18_RunnerFailureFailsInstall ==
  [][ /\ \A p \in Slots :
           ( /\ Completes(p)
             /\ proc'[p].op = "installPlugin"
             /\ proc'[p].reported = NoData )
           => ( /\ proc'[p].outcome \notin {"ok", ""}
                /\ catalog' = catalog )
      /\ ( /\ Len(proc'["init"].calls) > Len(proc["init"].calls)
           /\ proc'["init"].reported = NoData )
         => ( /\ proc'["init"].outcome \notin {"ok", ""}
              /\ proc'["init"].pc = "loop"
              /\ catalog' = catalog
              /\ newPlugins' = newPlugins
              /\ <<"warn", proc'["init"].name>> \in log' ) ]_vars

\* C18 witness: the runner failed during a request's install of a plugin the
\* catalog holds; the request ended in an error and the document is the one
\* start-up wrote
C18_Witness ==
  \E p \in Slots :
    /\ proc[p].op = "installPlugin"
    /\ proc[p].pc = "done"
    /\ proc[p].calls # <<>>
    /\ proc[p].reported = NoData
    /\ proc[p].outcome = cliFailure
    /\ requests = 1
    /\ \E d \in findByName(catalog, proc[p].name) :
         d._id = 1 /\ d.version = 1 /\ proc[p].version = 2

\* C19: when an update ends in success, the document with the given _id
\* carries the version the runner's update reported; when the runner's update
\* fails, the update ends in an error and the catalog is left as it was
C19_UpdateSetsVersion ==
  [][\A p \in Slots :
       (Completes(p) /\ proc'[p].op = "updatePlugin")
       => /\ proc'[p].outcome = "ok"
             => /\ proc'[p].reported # NoData
                /\ \E d \in catalog' :
                     /\ findById(catalog', proc'[p].id) = {d}
                     /\ d.version = proc'[p].reported.version
          /\ (proc'[p].calls # <<>> /\ proc'[p].reported = NoData)
             => /\ proc'[p].outcome \notin {"ok", ""}
                /\ catalog' = catalog]_vars

\* C19 witness: start-up installed a@1, and the first request, an update of
\* that document for which the runner reported version 2, has ended in success
\* with the document at version 2
C19_Witness ==
  /\ requests = 1
  /\ proc["init"].calls[1] = cliCall("install", <<"a", 1>>)
  /\ Len(newPlugins) > 0 /\ newPlugins[1] = "a"
  /\ proc["r1"].op = "updatePlugin"
  /\ proc["r1"].pc = "done"
  /\ proc["r1"].outcome = "ok"
  /\ proc["r1"].name = "a"
  /\ proc["r1"].reported.version = 2
  /\ \E d \in findById(catalog, proc["r1"].id) : d.name = "a" /\ d.version = 2

\* C20 (as claimed): a successful update leaves the name and the
\* isLocalInstall flag of the document it updates as they were
C20_UpdateKeepsNameAndFlag ==
  [][\A p \in Slots :
       ( /\ Completes(p)
         /\ proc'[p].op = "updatePlugin"
         /\ proc'[p].outcome = "ok" )
       => \A d \in findById(catalog, proc'[p].id) :
            \E e \in findById(catalog', proc'[p].id) :
              e.name = d.name /\ e.isLocalInstall = d.isLocalInstall]_vars

\* C21 (as claimed): every insertToDatabase of an install ends without an
\* error and leaves exactly one document of the plugin's name, also when
\* another install of the same, not yet catalogued name runs beside it
C21_UpsertByName ==
  [][\A p \in Slots :
       ( /\ proc[p].pc = "write"
         /\ proc'[p].pc = "done"
         /\ proc'[p].op \in Installs )
       => ( /\ proc'[p].outcome = "ok"
            /\ Cardinality(findByName(catalog', proc'[p].name)) = 1 )]_vars

\* the pass of installPlugins has ended: its install loop is through
PassDone == LoopEnded \/ Ready

\* C22: a start-up pass that found the catalog empty has invoked the runner's
\* install once for every declared dependency, in the declared order,
\* whatever became of the installs before it
C22_EveryDependencyAttempted ==
  (PassDone /\ dbPlugins = {})
  => proc["init"].calls =
       [i \in DOMAIN managedDeps |->
          cliCall("install", pluginStr(managedDeps[i][1], managedDeps[i][2]))]

\* C22 witness: the catalog was empty, the install of the first dependency
\* failed, the second was attempted and failed too, and the pass has ended
C22_Witness ==
  /\ PassDone
  /\ dbPlugins = {}
  /\ catalog = {}
  /\ newPlugins = <<>>
  /\ log = {<<"warn", "a">>, <<"warn", "b">>}
  /\ Len(proc["init"].calls) = 2

\* C23 (as claimed): a start-up pass marks for install every document whose
\* plugin is missing from the live plugin directory or is there in another
\* version than the document's
C23_DriftQueued ==
  [][(proc["init"].pc = "installPlugins" /\ proc'["init"].pc = "loop")
     => \A d \in catalog :
          (disk[d.name] = 0 \/ disk[d.name] # d.version)
          => \E i \in DOMAIN proc'["init"].queue :
               proc'["init"].queue[i][1] = d.name]_vars

\* C24 (as claimed): the check of the locally installed plugins that a
\* start-up pass makes puts the cached copy of every isLocalInstall document
\* whose plugin is missing from the live plugin directory back there
C24_LocalReinstalledFromCache ==
  [][(proc["init"].pc = "installPlugins" /\ proc'["init"].pc = "loop")
     => \A d \in catalog :
          ( /\ d.isLocalInstall = "true"
            /\ cache[d.name] # 0
            /\ disk[d.name] = 0 )
          => disk'[d.name] = cache[d.name]]_vars

\* C25 (as claimed): when a start-up pass has ended, every isLocalInstall
\* document it found without a cached copy is logged as an error, is in the
\* catalog as it was, and the runner was not invoked for its plugin
C25_MissingCacheNotCorrected ==
  PassDone =>
    \A d \in dbPlugins :
      (d.isLocalInstall = "true" /\ cache[d.name] = 0)
      => /\ <<"error", d.name>> \in log
         /\ d \in catalog
         /\ d.name \notin Attempted

\* the installs that start-up passes have logged as failed
FailedInstalls == {e \in log : Len(e) = 2 /\ e[1] = "warn"}

\* C26: in a start-up pass entered again after passes in which every install
\* succeeded, with nothing changed in between, no step invokes the runner and
\* no step changes the catalog or the live plugin directory
C26_ReentryIdempotent ==
  [][(proc["init"].reentry /\ FailedInstalls = {})
     => /\ proc'["init"].calls = <<>>
        /\ catalog' = catalog
        /\ disk' = disk]_vars

\* C26 witness: the first pass found an empty catalog and installed both
\* dependencies; the pass entered after it has ended, with the two documents
\* in the catalog and without a call of the runner
C26_Witness ==
  /\ proc["init"].reentry
  /\ Ready
  /\ FailedInstalls = {}
  /\ nextId = 5
  /\ {d.name : d \in catalog} = Names
  /\ \A n \in Names : disk[n] # 0
  /\ proc["init"].calls = <<>>

\* C27: when a start-up pass has ended, every declared dependency that it
\* found without a document, on disk or not, and whose install no pass has
\* logged as failed has a document, and the document's version is the version
\* in the live plugin directory
C27_NextPassRepairs ==
  PassDone =>
    \A i \in DOMAIN managedDeps :
      ( /\ findByName(dbPlugins, managedDeps[i][1]) = {}
        /\ <<"warn", managedDeps[i][1]>> \notin log )
      => \E d \in findByName(catalog, managedDeps[i][1]) :
           d.version = disk[d.name] /\ d.isLocalInstall = "false"

\* C27 witness: a pass found no document of the dependency a, installed a by
\* name and has ended with a new document of a at the version on disk; b,
\* which had its document, was left alone
C27_Witness ==
  /\ Ready
  /\ ~proc["init"].reentry
  /\ findByName(dbPlugins, "a") = {}
  /\ findByName(dbPlugins, "b") # {}
  /\ newPlugins = <<"a">>
  /\ proc["init"].calls = <<cliCall("install", <<"a", 1>>)>>
  /\ \E d \in findByName(catalog, "a") : d.version = disk["a"] /\ d._id = 3
  /\ log = {}

\* the schemas of the version of plugin n in the live plugin directory, as
\* processPluginSchemas files them
SchemasOnDisk(n, dsk) ==
  IF dsk[n] = 0 THEN NoSchemas[n]
  ELSE pushSchemas(NoSchemas, n, schemaFiles(n, dsk[n]))[n]

\* C28 (as claimed): when an install by name comes to write its document,
\* the schemas of the plugin the runner has installed are filed in
\* pluginSchemas
C28_SchemasBeforeUpsert ==
  [][\A p \in Slots :
       ( /\ proc[p].op = "installPlugin"
         /\ proc[p].pc = "write"
         /\ proc'[p].pc = "done" )
       => pluginSchemas[proc[p].name] = SchemasOnDisk(proc[p].name, disk)]_vars

\* C29 (as claimed): after every successful install or update of a plugin
\* that had schemas filed, its entry of pluginSchemas holds the schemas of the version now in the
\* live plugin directory, each once, and none of a version it replaced
C29_SchemasOverwritten ==
  [][\A p \in Slots :
       ( /\ Completes(p)
         /\ proc'[p].op \in Installs \cup {"updatePlugin"}
         /\ proc'[p].outcome = "ok"
         /\ pluginSchemas[proc'[p].name] # NoSchemas[proc'[p].name] )
       => pluginSchemas'[proc'[p].name] = SchemasOnDisk(proc'[p].name, disk')]_vars

\* C30: in every reachable state, whatever installs, updates and uninstalls
\* have run, every document with isLocalInstall true has a copy of its plugin
\* in the cache directory
C30_LocalInstallCached ==
  \A d \in catalog : d.isLocalInstall = "true" => cache[d.name] # 0

\* C30 witness: an archive install has ended in success: its document, with
\* isLocalInstall true, is in the catalog and the plugin is in the cache
C30_Witness ==
  \E p \in Slots :
    /\ proc[p].op = "manualInstallPlugin"
    /\ proc[p].pc = "done"
    /\ proc[p].outcome = "ok"
    /\ \E d \in findByName(catalog, proc[p].name) :
         /\ d.isLocalInstall = "true"
         /\ d.version = proc[p].data.version
         /\ cache[d.name] = d.version

\* C31 (as claimed): an install by name invokes the runner with the name and
\* the requested version, and with the name alone when no version is
\* requested ('*', or none as from installHandler)
C31_VersionPassedToRunner ==
  \A p \in Procs :
    (proc[p].op \in {"init", "installPlugin"} /\ proc[p].calls # <<>>
       /\ proc[p].name # "")
    => proc[p].calls[Len(proc[p].calls)] =
         cliCall("install",
                 IF proc[p].version \in Versions
                 THEN <<proc[p].name, proc[p].version>>
                 ELSE <<proc[p].name>>)

\* the plugins still marked for install in this pass
Queued == {proc["init"].queue[i][1] : i \in DOMAIN proc["init"].queue}

\* C32: within a start-up pass the operations on one plugin name follow one
\* another: the runner is not invoked before the check of the locally
\* installed plugins, with its cache copies, is through, the runner is
\* invoked at most once per name, the install in flight is the one at the
\* head of the plugins marked for install, and a name whose install is
\* through is not marked for install again
C32_OnePerNameInPass ==
  /\ proc["init"].pc = "installPlugins" => proc["init"].calls = <<>>
  /\ \A i, j \in DOMAIN proc["init"].calls :
       proc["init"].calls[i].plugin[1] = proc["init"].calls[j].plugin[1] => i = j
  /\ \A i, j \in DOMAIN proc["init"].queue :
       proc["init"].queue[i][1] = proc["init"].queue[j][1] => i = j
  /\ proc["init"].pc \in {"insertToDatabase", "write"}
       => /\ proc["init"].queue # <<>>
          /\ Head(proc["init"].queue)[1] = proc["init"].name
          /\ \A i \in DOMAIN proc["init"].calls :
               proc["init"].calls[i].plugin[1] = proc["init"].name
                 => i = Len(proc["init"].calls)
  /\ (proc["init"].pc = "loop" /\ proc["init"].queue # <<>>)
       => Attempted \cap Queued = {}

\* C32 witness: a pass found a locally installed a with a cached copy but
\* missing from the live plugin directory, made its check of a and then
\* invoked the runner for a and for b, once each
C32_Witness ==
  /\ Ready
  /\ \E d \in dbPlugins :
       d.name = "a" /\ d.isLocalInstall = "true" /\ cache["a"] # 0
  /\ Len(proc["init"].calls) = 2
  /\ Attempted = Names

C34_InitCompletes ==
  /\ (proc["init"].pc = "installPlugins") ~> Ready
  /\ [](PassDone => \A n \in Attempted \ Succeeded : <<"warn", n>> \in log)

\* C34 witness: the install of a failed, a locally installed b had no cached
\* copy, the schema read failed, each is in the log, and init has finished
C34_Witness ==
  /\ Ready
  /\ ~proc["init"].reentry
  /\ {<<"warn", "a">>, <<"error", "b">>, <<"error", "init">>} \subseteq log
  /\ findByName(catalog, "a") = {}

\* the error of the step at which process p's manualInstallPlugin fails in
\* this step
StepErrors(p) ==
  IF proc[p].pc = "checkClash"
    THEN {checkClash(findConflicting(catalog, proc[p].data.targetAttribute,
                                     proc[p].name))}
  ELSE IF proc[p].pc \in {"move", "copy"}
    THEN {"FsError"}
  ELSE IF proc[p].pc = "write"
    THEN {insertToDatabase(catalog, proc[p].existing, proc[p].data, nextId).code}
  ELSE {"FsError", checkInstalled(findByName(catalog, proc'[p].name), proc'[p].data)}

\* C35: a manual install that ends in failure ends with the error of the step
\* that failed, whether or not the removal of the unzipped files failed too,
\* and the step leaves the catalog as it was; no earlier step of a manual
\* install writes to the catalog
C35_ManualInstallFailure ==
  [][\A p \in Slots :
       (proc'[p] # proc[p] /\ proc'[p].op = "manualInstallPlugin"
          /\ proc'[p].outcome # "ok")
       => /\ catalog' = catalog
          /\ Completes(p) => proc'[p].outcome \in StepErrors(p)]_vars

\* C35 witness: the only request so far, a manual install, failed at its copy
\* into pluginInstallDir, the removal of the unzipped files failed as well,
\* and the catalog is as start-up left it
C35_Witness ==
  /\ requests = 1
  /\ proc["r1"].op = "manualInstallPlugin"
  /\ proc["r1"].pc = "done"
  /\ proc["r1"].outcome = "FsError"
  /\ proc["r1"].name \in Names
  /\ disk[proc["r1"].name] = proc["r1"].version
  /\ <<"debug", "removeError">> \in log
  /\ catalog = dbPlugins \cup {d \in catalog : d.name \in Succeeded}

\* C36: every step of an update or an uninstall whose getPluginById found no
\* document for the _id it was given leaves the catalog as it was and the runner uninvoked, and the
\* operation ends in an error
C36_UnknownIdFails ==
  [][\A p \in Slots :
       (proc'[p] # proc[p] /\ proc'[p].op \in {"updatePlugin", "uninstallPlugin"}
          /\ proc'[p].name = "")
       => /\ catalog' = catalog
          /\ proc'[p].calls = <<>>
          /\ proc'[p].pc \in {"delete", "done"}
          /\ proc'[p].pc = "done" => proc'[p].outcome \in {"TypeError", "DatabaseError"}]_vars

\* C36 witness: after an update of an _id without a document had failed, the
\* uninstall of an _id without a document has ended in a TypeError, with
\* documents in the catalog and no call of the runner
C36_Witness ==
  /\ requests = 2
  /\ proc["r1"].op = "uninstallPlugin"
  /\ proc["r1"].pc = "done"
  /\ findById(catalog, proc["r1"].id) = {}
  /\ proc["r1"].name = ""
  /\ proc["r1"].outcome = "TypeError"
  /\ proc["r1"].calls = <<>>
  /\ catalog = dbPlugins \cup {d \in catalog : d.name \in Succeeded}
  /\ Cardinality(catalog) = 2

\* the schema files of the version of plugin n in the live plugin directory
\* that patch the source schema src, in the order of the files
OwnFragments(n, src) ==
  IF n \in Names /\ findByName(catalog, n) # {} /\ disk[n] # 0
  THEN SelectSeq(schemaFiles(n, disk[n]), LAMBDA f : f.source = src)
  ELSE <<>>

====
